---- MODULE Spec2Model ----
(***************************************************************************)
(* Model of the two listing scrapers of the repository:                    *)
(*   site A  extract_data.py         (imovelweb, page-by-page, threaded)   *)
(*   site B  quintoandar_scraper.py  (quintoandar, one bulk request)       *)
(* The file system (output CSVs, state JSON), the wall clock and the HTTP  *)
(* API are the environment; their behaviour is drawn nondeterministically. *)
(***************************************************************************)
EXTENDS Integers, Sequences, FiniteSets, TLC

VARIABLES
    site,       \* which program a behaviour is of: "A", "B", "main", "flat"
    files,      \* output CSV files: name -> [ok, ids]
    state_files,\* state JSON files: name -> [kind, last_page]
    now,        \* wall clock, in whole seconds
    args,       \* argparse namespace: [start, max_pages]
    N,          \* number of non-empty pages the API serves in this invocation
    pc,         \* per worker: position in scrape_city_task
    city_slug,  \* per worker: self.city_slug
    seen_posting_ids,            \* per worker: self.seen_posting_ids
    new_listings_this_session,   \* per worker: the accumulator dict, in insertion order
    state,      \* per worker: self.state["last_page"]
    current_page,                \* per worker: local of scrape
    pages_scraped_this_run,      \* per worker: local of scrape
    hist,       \* per worker: history of the run (what was requested, fetched, written)
    lost,       \* history: what the last interrupted run held unsaved
    b,          \* site B: locals of the __main__ loop body
    bh,         \* site B: history of the current city's iteration
    m,          \* site A main(): position of the orchestrator
    fl          \* flattener: the record being flattened and the row produced

vars == <<site, files, state_files, now, args, N, pc, city_slug,
          seen_posting_ids, new_listings_this_session, state, current_page,
          pages_scraped_this_run, hist, lost, b, bh, m, fl>>

envA == <<files, state_files, now>>
workerVars == <<pc, city_slug, seen_posting_ids, new_listings_this_session,
                state, current_page, pages_scraped_this_run, hist>>
otherB == <<b, bh>>

----------------------------------------------------------------------------
(* Bounds of the model *)

MaxPages == 2       \* the API serves at most this many non-empty pages
MaxPerPage == 2     \* listings per page
MaxTime == 2        \* distinct seconds of the wall clock
MaxCities == 2      \* length of the --city list
MaxBatch == 2       \* site B: page_multiplier, the listings asked for in one request
MaxRows == 4        \* site B: rows of one CSV file
MaxFeatures == 2    \* entries of a listing's mainFeatures

----------------------------------------------------------------------------
(* Values *)

None == <<>>
Some(n) == <<n>>

\* Python truthiness of an Optional[int]: None and 0 are falsy
Truthy(o) == o # None /\ o[1] # 0

Range(s) == {s[i] : i \in DOMAIN s}

\* A postingId as the API sends it: a JSON number or a JSON string
RawIds == {<<"int", 1>>, <<"str", 1>>, <<"int", 2>>}

\* str(postingId): the number 1 and the string "1" give the same text
Str(raw) == raw[2]

StrAll(items) == [i \in DOMAIN items |-> Str(items[i])]

NoDup(s) == \A i, j \in DOMAIN s : i # j => s[i] # s[j]

\* City slugs, as the pieces str.replace and glob look at
Itanhaem == <<"itanhaem", "-", "sp">>
Santos == <<"santos", "-", "sp">>

CITY_CODES == (Itanhaem :> "109237")

\* s.replace(old, new)
Replace(s, old, new) == [i \in DOMAIN s |-> IF s[i] = old THEN new ELSE s[i]]

\* ImovelWebScraper.__init__: self.state_file
StateFileName(slug) == <<"scraper_state", "_">> \o Replace(slug, "-", "_") \o <<".json">>

\* save_new_listings_to_city_csv: output_path, with its timestamp to the second
OutputPath(ts, slug) == [ts |-> ts, slug |-> slug]

HasSuffix(s, suf) ==
    /\ Len(suf) <= Len(s)
    /\ SubSeq(s, Len(s) - Len(suf) + 1, Len(s)) = suf

\* directory.glob("*_{city_slug}_results.csv")
GlobMatch(slug, name) == HasSuffix(<<"_">> \o name.slug, <<"_">> \o slug)

Glob(slug) == {n \in DOMAIN files : GlobMatch(slug, n)}

----------------------------------------------------------------------------
(* Site A: extract_data.py *)

Workers == 1..MaxCities

\* --start and --max-pages: absent, zero, or a page number
StartArgs == {None, Some(0), Some(MaxPages)}
MaxPagesArgs == {None, Some(0), Some(1)}

\* What the API can answer to a request for page p
Listings == UNION {[1..k -> RawIds] : k \in 1..MaxPerPage}
Faults == {[kind |-> "http", items |-> <<>>], [kind |-> "exc", items |-> <<>>]}
Responses(p) ==
    Faults \cup
    (IF p \in 1..N THEN {[kind |-> "ok", items |-> l] : l \in Listings}
                   ELSE {[kind |-> "ok", items |-> <<>>]})

\* What the spec calls the end of the data: an empty listing array, a status
\* other than 200, or an exception
Terminal(resp) == resp.kind # "ok" \/ resp.items = <<>>

\* History of one worker's run, kept for the properties:
\*   requested   the pages requested, in order
\*   F           the IDs the API returned
\*   S_all       the IDs held by the city's output files when the run loaded them
\*   S_read      those held by the files that were readable then
\*   written     the postingId column of the file the run wrote
\*   clean       no request failed (each answer was a 200)
\*   stopped     some answer was Terminal; stop_at is the number of that request
\*   persisted0  the last_page the run loaded
\*   shared      the run loaded or overwrote a last_page persisted by another
\*               worker of the same invocation
NoHist == [requested |-> <<>>, F |-> {}, S_all |-> {}, S_read |-> {},
           written |-> <<>>, clean |-> TRUE, stopped |-> FALSE, stop_at |-> 0,
           persisted0 |-> 0, shared |-> FALSE]

\* hist[w] after the answer resp to a request for page
Answered(h, page, resp) ==
    [h EXCEPT !.requested = Append(@, page),
              !.F = @ \cup Range(StrAll(resp.items)),
              !.clean = @ /\ resp.kind = "ok",
              !.stopped = @ \/ Terminal(resp),
              !.stop_at = IF ~h.stopped /\ Terminal(resp)
                          THEN Len(h.requested) + 1 ELSE @]

\* Another worker of this invocation has persisted a last_page in file name
PersistedByOther(w, name) ==
    \E v \in Workers \ {w} :
       /\ pc[v] \in {"loop", "done"}
       /\ pages_scraped_this_run[v] >= 1
       /\ StateFileName(city_slug[v]) = name

\* ImovelWebScraper._load_state
load_state(name) ==
    IF name \in DOMAIN state_files /\ state_files[name].kind = "ok"
    THEN state_files[name].last_page
    ELSE 0

\* _save_state persisting the page that comes next instead of the page fetched
save_state_next(name, page) ==
    (name :> [kind |-> "ok", last_page |-> page + 1]) @@ state_files

\* ImovelWebScraper._save_state: the file after json.dump
save_state(name, page) == (name :> [kind |-> "ok", last_page |-> page]) @@ state_files

\* load_seen_ids_from_city_csvs: the loop over the globbed files, one try each
RECURSIVE read_city_csvs(_, _)
read_city_csvs(names, seen_ids) ==
    IF names = {} THEN seen_ids
    ELSE LET file == CHOOSE n \in names : TRUE
         IN  read_city_csvs(names \ {file},
                            IF files[file].ok
                            THEN seen_ids \cup Range(files[file].ids)
                            ELSE seen_ids)

\* load_seen_ids_from_city_csvs with its try around the whole loop: one
\* unreadable file ends the loading
load_seen_ids_one_try(slug) ==
    IF \E n \in Glob(slug) : ~files[n].ok THEN {} ELSE read_city_csvs(Glob(slug), {})

load_seen_ids_from_city_csvs(slug) == read_city_csvs(Glob(slug), {})

\* The filter of scrape_page without its test against this session's accumulator
RECURSIVE accumulate_unseen(_, _, _)
accumulate_unseen(acc, seen, items) ==
    IF items = <<>> THEN acc
    ELSE accumulate_unseen(IF Str(Head(items)) \notin seen
                           THEN Append(acc, Head(items)) ELSE acc,
                           seen, Tail(items))

\* scrape_page, lines 106-110: the filter of one page into the accumulator
RECURSIVE accumulate(_, _, _)
accumulate(acc, seen, items) ==
    IF items = <<>> THEN acc
    ELSE LET posting_id == Str(Head(items))
         IN  accumulate(IF posting_id \notin seen /\ posting_id \notin Range(StrAll(acc))
                        THEN Append(acc, Head(items))
                        ELSE acc,
                        seen, Tail(items))

\* scrape_page returning True after a status other than 200
scrape_page_returns_on_status(resp) ==
    resp.kind = "http" \/ (resp.kind = "ok" /\ resp.items # <<>>)

\* scrape_page's return value: True only for a 200 with a non-empty listPostings
scrape_page_returns(resp) == resp.kind = "ok" /\ resp.items # <<>>

\* scrape, line 124: start_page or last_page + 1
first_page(start_page, last_page) ==
    IF Truthy(start_page) THEN start_page[1] ELSE last_page + 1

\* scrape, line 130: max_pages and pages_scraped_this_run >= max_pages
max_reached(max_pages, scraped) == Truthy(max_pages) /\ scraped >= max_pages[1]

\* save_new_listings_to_city_csv: the postingId column of the rows written
flatten_ids(new_listings) == StrAll(new_listings)

NoArgs == [start |-> None, max_pages |-> None]

\* scrape_city_task up to the loop of scrape: the seen-ID set is loaded, the
\* scraper is constructed (its state loaded) and scrape picks its first page
Begin(w, slug, start_page) ==
    LET last_page == load_state(StateFileName(slug))
    IN  /\ pc' = [pc EXCEPT ![w] = "loop"]
        /\ city_slug' = [city_slug EXCEPT ![w] = slug]
        /\ seen_posting_ids' = [seen_posting_ids EXCEPT ![w] =
                                   load_seen_ids_from_city_csvs(slug)]
        /\ new_listings_this_session' = [new_listings_this_session EXCEPT ![w] = <<>>]
        /\ state' = [state EXCEPT ![w] = last_page]
        /\ current_page' = [current_page EXCEPT ![w] = first_page(start_page, last_page)]
        /\ pages_scraped_this_run' = [pages_scraped_this_run EXCEPT ![w] = 0]
        /\ hist' = [hist EXCEPT ![w] =
              [NoHist EXCEPT
                 !.S_all = UNION {Range(files[n].ids) : n \in Glob(slug)},
                 !.S_read = UNION {Range(files[n].ids) :
                                      n \in {x \in Glob(slug) : files[x].ok}},
                 !.persisted0 = last_page,
                 !.shared = PersistedByOther(w, StateFileName(slug))]]

\* scrape returns the accumulator (line 140); scrape_city_task, lines 212-213,
\* saves it when it is not empty. h is the worker's history up to here.
Finish(w, h) ==
    LET new_city_listings == new_listings_this_session[w]
        rows == flatten_ids(new_city_listings)
    IN  /\ IF new_city_listings # <<>>
           THEN /\ files' = (OutputPath(now, city_slug[w]) :>
                                [ok |-> TRUE, ids |-> rows]) @@ files
                /\ hist' = [hist EXCEPT ![w] = [h EXCEPT !.written = rows]]
           ELSE /\ files' = files
                /\ hist' = [hist EXCEPT ![w] = h]
        /\ pc' = [pc EXCEPT ![w] = "done"]

\* One invocation of the program for one city
A_Start ==
    /\ site = "A"
    /\ pc[1] = "idle"
    /\ \E st \in StartArgs, mp \in MaxPagesArgs, n \in 0..MaxPages :
          /\ args' = [start |-> st, max_pages |-> mp]
          /\ N' = n
          /\ Begin(1, Itanhaem, st)
    /\ UNCHANGED <<site, envA, lost, b, bh, m, fl>>

\* scrape, lines 130-132: the cap ends the loop
A_MaxReached(w) ==
    /\ pc[w] = "loop"
    /\ max_reached(args.max_pages, pages_scraped_this_run[w])
    /\ Finish(w, hist[w])
    /\ UNCHANGED <<site, state_files, now, args, N, city_slug, seen_posting_ids,
                   new_listings_this_session, state, current_page,
                   pages_scraped_this_run, lost, b, bh, m, fl>>

\* scrape, lines 133-137, with scrape_page: a page is fetched and the loop goes on
A_PageFetched(w) ==
    /\ pc[w] = "loop"
    /\ ~max_reached(args.max_pages, pages_scraped_this_run[w])
    /\ \E resp \in Responses(current_page[w]) :
          LET page == current_page[w]
          IN  /\ scrape_page_returns(resp)
              /\ new_listings_this_session' =
                     [new_listings_this_session EXCEPT ![w] =
                         accumulate(@, seen_posting_ids[w], resp.items)]
              /\ state' = [state EXCEPT ![w] = page]
              /\ state_files' = save_state(StateFileName(city_slug[w]), page)
              /\ pages_scraped_this_run' = [pages_scraped_this_run EXCEPT ![w] = @ + 1]
              /\ current_page' = [current_page EXCEPT ![w] = @ + 1]
              /\ hist' = [hist EXCEPT ![w] =
                     [Answered(@, page, resp) EXCEPT
                        !.shared = @ \/ PersistedByOther(w, StateFileName(city_slug[w]))]]
    /\ UNCHANGED <<site, files, now, args, N, pc, city_slug, seen_posting_ids,
                   lost, b, bh, m, fl>>

\* scrape, line 133: scrape_page returned False (an empty listing array, a
\* status other than 200, or an exception), and the loop ends
A_PageStops(w) ==
    /\ pc[w] = "loop"
    /\ ~max_reached(args.max_pages, pages_scraped_this_run[w])
    /\ \E resp \in Responses(current_page[w]) :
          /\ ~scrape_page_returns(resp)
          /\ Finish(w, Answered(hist[w], current_page[w], resp))
    /\ UNCHANGED <<site, state_files, now, args, N, city_slug, seen_posting_ids,
                   new_listings_this_session, state, current_page,
                   pages_scraped_this_run, lost, b, bh, m, fl>>

\* Everything a process held in memory is gone when it ends
Forget(w) ==
    /\ pc' = [pc EXCEPT ![w] = "idle"]
    /\ seen_posting_ids' = [seen_posting_ids EXCEPT ![w] = {}]
    /\ new_listings_this_session' = [new_listings_this_session EXCEPT ![w] = <<>>]
    /\ state' = [state EXCEPT ![w] = 0]
    /\ current_page' = [current_page EXCEPT ![w] = 0]
    /\ pages_scraped_this_run' = [pages_scraped_this_run EXCEPT ![w] = 0]
    /\ hist' = [hist EXCEPT ![w] = NoHist]
    /\ args' = NoArgs
    /\ N' = 0

\* The process exits after the worker has finished
A_Exit ==
    /\ site = "A"
    /\ pc[1] = "done"
    /\ Forget(1)
    /\ lost' = [live |-> FALSE, pages |-> {}]
    /\ UNCHANGED <<site, envA, city_slug, b, bh, m, fl>>

\* The process is killed after pages were fetched and before anything is saved
A_Kill ==
    /\ site = "A"
    /\ pc[1] = "loop"
    /\ pages_scraped_this_run[1] >= 1
    /\ lost' = [live |-> TRUE,
                pages |-> IF new_listings_this_session[1] = <<>> THEN {}
                          ELSE Range(hist[1].requested)]
    /\ Forget(1)
    /\ UNCHANGED <<site, envA, city_slug, b, bh, m, fl>>

----------------------------------------------------------------------------
(* Site B: quintoandar_scraper.py *)

BASE_PAGE_SIZE == 1

\* City slugs given on the command line; the second and third share one file name
BSlugs == {Itanhaem, Santos, <<"santos", "_", "sp">>}

\* __main__, lines 120-121: output_filepath
BFilePath(slug) ==
    [ts |-> 0, slug |-> <<"quintoandar", "_">> \o Replace(slug, "-", "_") \o <<".csv">>]

\* What the API can answer to the one request for total_size listings
BResponses(total_size) ==
    {[kind |-> "request_error", hits |-> <<>>], [kind |-> "json_error", hits |-> <<>>]}
    \cup {[kind |-> "ok", hits |-> h] :
             h \in UNION {[1..k -> RawIds] : k \in 0..total_size}}

\* load_existing_ids, lines 18-20: the rows read into the set
RECURSIVE read_rows(_, _)
read_rows(rows, existing_ids) ==
    IF rows = <<>> THEN existing_ids
    ELSE read_rows(Tail(rows), existing_ids \cup {Head(rows)})

\* load_existing_ids
load_existing_ids(filepath) ==
    IF filepath \notin DOMAIN files THEN {}
    ELSE IF ~files[filepath].ok THEN {}
    ELSE read_rows(files[filepath].ids, {})

\* fetch_quintoandar_data: the listings returned, None after an error
fetch_quintoandar_data(resp) ==
    IF resp.kind = "ok" THEN Some(resp.hits) ELSE None

\* __main__, line 131: {str(item['id']): item for item in listings}.values().
\* A key keeps the place of its first item and the value of its last.
RECURSIVE unique_by_id(_, _)
unique_by_id(listings, d) ==
    IF listings = <<>> THEN d
    ELSE LET item == Head(listings)
             at == {i \in DOMAIN d : Str(d[i]) = Str(item)}
         IN  unique_by_id(Tail(listings),
                          IF at = {} THEN Append(d, item)
                          ELSE [i \in DOMAIN d |-> IF i \in at THEN item ELSE d[i]])

\* The filter of __main__ that forgets existing_ids
filter_new_all(listings, existing_ids) == listings

\* __main__, lines 132-135: the listings whose id is not in existing_ids
RECURSIVE filter_new(_, _)
filter_new(listings, existing_ids) ==
    IF listings = <<>> THEN <<>>
    ELSE IF Str(Head(listings)) \notin existing_ids
         THEN <<Head(listings)>> \o filter_new(Tail(listings), existing_ids)
         ELSE filter_new(Tail(listings), existing_ids)

\* save_to_csv: the file after the rows of data are appended
save_to_csv(data, filepath) ==
    IF data = <<>> THEN files
    ELSE IF filepath \in DOMAIN files
         THEN [files EXCEPT ![filepath].ids = @ \o StrAll(data)]
         ELSE (filepath :> [ok |-> TRUE, ids |-> StrAll(data)]) @@ files

NoB == [pc |-> "idle", page_multiplier |-> 0, city |-> <<>>, existing_ids |-> {}]
NoHistB == [S_all |-> {}, S_read |-> {}, F |-> {}, written |-> <<>>]

\* __main__, lines 94-115: the arguments are validated
B_Start ==
    /\ site = "B"
    /\ b.pc = "idle"
    /\ \E page_multiplier \in 0..MaxBatch :
          b' = [NoB EXCEPT !.pc = IF page_multiplier < 1 THEN "exit1" ELSE "loop",
                           !.page_multiplier = page_multiplier]
    /\ bh' = NoHistB
    /\ UNCHANGED <<site, envA, args, N, workerVars, lost, m, fl>>

\* __main__, lines 117-142: the loop body for one city
B_City ==
    /\ site = "B"
    /\ b.pc = "loop"
    /\ \E city \in BSlugs, resp \in BResponses(b.page_multiplier * BASE_PAGE_SIZE) :
          LET output_filepath == BFilePath(city)
              existing_ids == load_existing_ids(output_filepath)
              listings == fetch_quintoandar_data(resp)
              final_listings_to_add ==
                  IF listings # None /\ listings[1] # <<>>
                  THEN filter_new(unique_by_id(listings[1], <<>>), existing_ids)
                  ELSE <<>>
          IN  /\ files' = save_to_csv(final_listings_to_add, output_filepath)
              /\ \A n \in DOMAIN files' : Len(files'[n].ids) <= MaxRows
              /\ b' = [b EXCEPT !.pc = "city", !.city = city,
                                !.existing_ids = existing_ids]
              /\ bh' = [S_all |-> IF output_filepath \in DOMAIN files
                                  THEN Range(files[output_filepath].ids) ELSE {},
                        S_read |-> IF output_filepath \in DOMAIN files
                                      /\ files[output_filepath].ok
                                   THEN Range(files[output_filepath].ids) ELSE {},
                        F |-> IF listings = None THEN {} ELSE Range(StrAll(listings[1])),
                        written |-> StrAll(final_listings_to_add)]
    /\ UNCHANGED <<site, state_files, now, args, N, workerVars, lost, m, fl>>

\* __main__, line 117: the loop goes on to the next city
B_NextCity ==
    /\ site = "B"
    /\ b.pc = "city"
    /\ b' = [NoB EXCEPT !.pc = "loop", !.page_multiplier = b.page_multiplier]
    /\ bh' = NoHistB
    /\ UNCHANGED <<site, envA, args, N, workerVars, lost, m, fl>>

\* The process exits: after the last city, or with code 1 from the validation
B_Exit ==
    /\ site = "B"
    /\ b.pc \in {"loop", "exit1"}
    /\ b' = NoB
    /\ bh' = NoHistB
    /\ UNCHANGED <<site, envA, args, N, workerVars, lost, m, fl>>

----------------------------------------------------------------------------
(* Environment *)

\* The clock reaches the next second. Only the second of a save is ever read,
\* so the seconds in which nothing was written are not told apart.
Tick ==
    /\ site = "main" \/ \A w \in Workers : pc[w] = "idle"
    /\ \E n \in DOMAIN files : n.ts = now
    /\ now < MaxTime
    /\ now' = now + 1
    /\ UNCHANGED <<site, files, state_files, args, N, workerVars, lost,
                   otherB, m, fl>>

\* An output file becomes unreadable (a bad line, a bad byte, a lost permission)
CorruptFile ==
    /\ \A w \in Workers : pc[w] = "idle"
    /\ b.pc = "idle"
    /\ \E n \in DOMAIN files :
          /\ files[n].ok
          /\ files' = [files EXCEPT ![n].ok = FALSE]
    /\ UNCHANGED <<site, state_files, now, args, N, workerVars, lost,
                   otherB, m, fl>>

\* A state file stops being valid JSON
CorruptStateFile ==
    /\ \A w \in Workers : pc[w] = "idle"
    /\ b.pc = "idle"
    /\ \E n \in DOMAIN state_files :
          /\ state_files[n].kind = "ok"
          /\ state_files' = [state_files EXCEPT ![n] = [kind |-> "corrupt", last_page |-> 0]]
    /\ UNCHANGED <<site, files, now, args, N, workerVars, lost, otherB, m, fl>>

----------------------------------------------------------------------------

\* Nothing is being flattened
NoFlat == [pc |-> "none", listing |-> <<>>, row |-> <<>>]

NoMain == [pc |-> "idle", city |-> <<>>, i |-> 0, threads |-> {}]

InitCommon ==
    /\ files = <<>>
    /\ state_files = <<>>
    /\ now = 1
    /\ args = NoArgs
    /\ N = 0
    /\ pc = [w \in Workers |-> "idle"]
    /\ city_slug = [w \in Workers |-> Itanhaem]
    /\ seen_posting_ids = [w \in Workers |-> {}]
    /\ new_listings_this_session = [w \in Workers |-> <<>>]
    /\ state = [w \in Workers |-> 0]
    /\ current_page = [w \in Workers |-> 0]
    /\ pages_scraped_this_run = [w \in Workers |-> 0]
    /\ hist = [w \in Workers |-> NoHist]
    /\ lost = [live |-> FALSE, pages |-> {}]
    /\ b = NoB
    /\ bh = NoHistB
    /\ m = NoMain
    /\ fl = NoFlat

Init ==
    /\ site \in {"A", "B"}
    /\ InitCommon

Next ==
    \/ A_Start
    \/ site = "A" /\ A_MaxReached(1)
    \/ site = "A" /\ A_PageFetched(1)
    \/ site = "A" /\ A_PageStops(1)
    \/ A_Kill
    \/ A_Exit
    \/ B_Start
    \/ B_City
    \/ B_NextCity
    \/ B_Exit
    \/ Tick
    \/ CorruptFile
    \/ CorruptStateFile

Spec == Init /\ [][Next]_vars

----------------------------------------------------------------------------
(* Site A: main(), one thread per requested city (specification SpecMain) *)

\* The --city lists: one to MaxCities slugs, known or not, repeated or not
CityLists == UNION {[1..k -> {Itanhaem, Santos}] : k \in 1..MaxCities}

\* main, lines 216-225: the arguments are parsed
M_Start ==
    /\ site = "main"
    /\ m.pc = "idle"
    /\ \E cities \in CityLists, st \in StartArgs, mp \in MaxPagesArgs, n \in 0..MaxPages :
          /\ m' = [pc |-> "loop", city |-> cities, i |-> 1, threads |-> {}]
          /\ args' = [start |-> st, max_pages |-> mp]
          /\ N' = n
    /\ UNCHANGED <<site, envA, workerVars, lost, b, bh, fl>>

\* main, lines 227-230: a slug without a code is skipped with a warning
M_SkipCity ==
    /\ site = "main"
    /\ m.pc = "loop"
    /\ m.i <= Len(m.city)
    /\ m.city[m.i] \notin DOMAIN CITY_CODES
    /\ m' = [m EXCEPT !.i = @ + 1]
    /\ UNCHANGED <<site, envA, args, N, workerVars, lost, b, bh, fl>>

\* main, lines 231-234: a thread is started for the slug
M_StartThread ==
    /\ site = "main"
    /\ m.pc = "loop"
    /\ m.i <= Len(m.city)
    /\ m.city[m.i] \in DOMAIN CITY_CODES
    /\ pc' = [pc EXCEPT ![m.i] = "spawned"]
    /\ city_slug' = [city_slug EXCEPT ![m.i] = m.city[m.i]]
    /\ m' = [m EXCEPT !.i = @ + 1, !.threads = @ \cup {m.i}]
    /\ UNCHANGED <<site, envA, args, N, seen_posting_ids, new_listings_this_session,
                   state, current_page, pages_scraped_this_run, hist, lost, b, bh, fl>>

\* main, lines 235-237: every thread is joined
M_Join ==
    /\ site = "main"
    /\ m.pc = "loop"
    /\ m.i > Len(m.city)
    /\ \A t \in m.threads : pc[t] = "done"
    /\ m' = [m EXCEPT !.pc = "done"]
    /\ UNCHANGED <<site, envA, args, N, workerVars, lost, b, bh, fl>>

\* The thread runs scrape_city_task up to the loop of scrape
M_Begin(w) ==
    /\ site = "main"
    /\ pc[w] = "spawned"
    /\ Begin(w, city_slug[w], args.start)
    /\ UNCHANGED <<site, envA, args, N, lost, b, bh, m, fl>>

InitMain ==
    /\ site = "main"
    /\ InitCommon

NextMain ==
    \/ M_Start
    \/ M_SkipCity
    \/ M_StartThread
    \/ M_Join
    \/ \E w \in Workers : M_Begin(w)
    \/ \E w \in Workers : site = "main" /\ A_MaxReached(w)
    \/ \E w \in Workers : site = "main" /\ A_PageFetched(w)
    \/ \E w \in Workers : site = "main" /\ A_PageStops(w)
    \/ Tick

SpecMain == InitMain /\ [][NextMain]_vars

----------------------------------------------------------------------------
(* Site A: the flattening of one listing in save_new_listings_to_city_csv
   (specification SpecFlat) *)

\* The words looked for in the labels of mainFeatures. A label is modelled by the
\* word it holds; "other" holds none, "null" is a label that is not a string.
FeatureWords == {"util", "total", "quarto", "banheiro", "suite", "vaga"}
Labels == FeatureWords \cup {"other", "null"}

\* The values of mainFeatures: absent, null, or a dict of up to MaxFeatures features
FeatureDicts == UNION {[1..k -> Labels] : k \in 0..MaxFeatures}

\* The listing records flattened: for each source path, what the record holds there
FlatListings ==
    [priceOperationTypes : {"missing", "empty", "ok"},
     expenses : {"missing", "ok"},
     mainFeatures : {[kind |-> "missing", dict |-> <<>>], [kind |-> "null", dict |-> <<>>]}
                    \cup {[kind |-> "dict", dict |-> d] : d \in FeatureDicts},
     location : {"missing", "ok"},
     geolocation : {"missing", "ok"},
     url : {"missing", "empty", "ok"},
     publisher : {"missing", "null", "ok"}]

\* next((f.get('value') for f in features if word in f.get('label','').lower()), None):
\* the first feature whose label holds the word; a label that is not a string
\* met before it raises AttributeError
RECURSIVE scan(_, _)
scan(features, word) ==
    IF features = <<>> THEN [raised |-> FALSE, value |-> None]
    ELSE IF Head(features) = "null" THEN [raised |-> TRUE, value |-> None]
    ELSE IF Head(features) = word THEN [raised |-> FALSE, value |-> Some(word)]
    ELSE scan(Tail(features), word)

\* a or b
Or(a, c) == IF a # None THEN a ELSE c

\* Lines 173-184: the one try block that reads area, bedrooms, bathrooms, suites
\* and parking, each assigned only if nothing raised before it
features_block(mf) ==
    LET none == [area |-> None, bedrooms |-> None, bathrooms |-> None,
                 suites |-> None, parking |-> None]
        d == mf.dict
        util == scan(d, "util")
        total == scan(d, "total")
        quarto == scan(d, "quarto")
        banheiro == scan(d, "banheiro")
        suite == scan(d, "suite")
        vaga == scan(d, "vaga")
        r1 == [none EXCEPT !.area = Or(util.value, total.value)]
        r2 == [r1 EXCEPT !.bedrooms = quarto.value]
        r3 == [r2 EXCEPT !.bathrooms = banheiro.value]
        r4 == [r3 EXCEPT !.suites = suite.value]
        r5 == [r4 EXCEPT !.parking = vaga.value]
    IN  IF mf.kind # "dict" THEN none
        ELSE IF util.raised \/ total.raised THEN none
        ELSE IF quarto.raised THEN r1
        ELSE IF banheiro.raised THEN r2
        ELSE IF suite.raised THEN r3
        ELSE IF vaga.raised THEN r4
        ELSE r5

\* Lines 185-190: the one try block that reads location, then latitude and longitude
location_block(listing) ==
    IF listing.location = "missing"
    THEN [location |-> None, latitude |-> None, longitude |-> None]
    ELSE IF listing.geolocation = "missing"
    THEN [location |-> Some("name"), latitude |-> None, longitude |-> None]
    ELSE [location |-> Some("name"), latitude |-> Some("lat"), longitude |-> Some("lon")]

\* Lines 165-198: the row made of one listing, or the exception that leaves
\* the loop (line 197 reads publisher outside any try)
flatten(listing) ==
    LET f == features_block(listing.mainFeatures)
        l == location_block(listing)
        ok == listing.priceOperationTypes = "ok"
    IN  [raised |-> listing.publisher = "null",
         price |-> IF ok THEN Some("amount") ELSE None,
         currency |-> IF ok THEN Some("currency") ELSE None,
         expenses |-> IF listing.expenses = "ok" THEN Some("amount") ELSE None,
         area_m2 |-> f.area, bedrooms |-> f.bedrooms, bathrooms |-> f.bathrooms,
         suites |-> f.suites, parking |-> f.parking,
         location |-> l.location, latitude |-> l.latitude, longitude |-> l.longitude,
         full_url |-> IF listing.url = "ok" THEN Some("url") ELSE None,
         publisher |-> IF listing.publisher = "ok" THEN Some("name") ELSE None]

\* One listing of new_listings goes through the loop body
F_Flatten ==
    /\ site = "flat"
    /\ fl.pc = "in"
    /\ fl' = [fl EXCEPT !.pc = "out", !.row = flatten(fl.listing)]
    /\ UNCHANGED <<site, envA, args, N, workerVars, lost, b, bh, m>>

InitFlat ==
    /\ site = "flat"
    /\ files = <<>>
    /\ state_files = <<>>
    /\ now = 1
    /\ args = NoArgs
    /\ N = 0
    /\ pc = [w \in Workers |-> "idle"]
    /\ city_slug = [w \in Workers |-> Itanhaem]
    /\ seen_posting_ids = [w \in Workers |-> {}]
    /\ new_listings_this_session = [w \in Workers |-> <<>>]
    /\ state = [w \in Workers |-> 0]
    /\ current_page = [w \in Workers |-> 0]
    /\ pages_scraped_this_run = [w \in Workers |-> 0]
    /\ hist = [w \in Workers |-> NoHist]
    /\ lost = [live |-> FALSE, pages |-> {}]
    /\ b = NoB
    /\ bh = NoHistB
    /\ m = NoMain
    /\ \E listing \in FlatListings :
          fl = [pc |-> "in", listing |-> listing, row |-> <<>>]

NextFlat == F_Flatten

SpecFlat == InitFlat /\ [][NextFlat]_vars

----------------------------------------------------------------------------
(* Properties of one run and of runs in sequence (specification Spec) *)

\* The last_page a new process would load for worker w's city
Persisted(w) == load_state(StateFileName(city_slug[w]))

\* The rows a step of site B appended to file n
Appended(n) ==
    IF n \in DOMAIN files
    THEN SubSeq(files'[n].ids, Len(files[n].ids) + 1, Len(files'[n].ids))
    ELSE files'[n].ids

C2_Original ==
    /\ site = "A" =>
          \A n1, n2 \in DOMAIN files :
             (n1 # n2 /\ n1.slug = n2.slug) =>
                Range(files[n1].ids) \cap Range(files[n2].ids) = {}
    /\ site = "B" => \A n \in DOMAIN files : NoDup(files[n].ids)

\* C2, amended: a run writes no ID held by an output file of its city that
\* existed and was readable when the run loaded its seen-ID set: the file a
\* site-A run writes holds none, and the rows a site-B run appends hold none.
C2_Amended ==
    [][/\ site = "A" =>
             \A w \in Workers : (pc[w] = "loop" /\ pc'[w] = "done") =>
                \A n \in DOMAIN files' :
                   (n \notin DOMAIN files \/ files'[n] # files[n]) =>
                      Range(files'[n].ids) \cap hist[w].S_read = {}
       /\ site = "B" =>
             ((b.pc = "loop" /\ b'.pc = "city") =>
                \A n \in DOMAIN files' :
                   Range(Appended(n)) \cap bh'.S_read = {})]_vars

\* A site-B run that was sent an ID its readable CSV held, and appended another
C2_Witness ==
    /\ site = "B"
    /\ b.pc = "city"
    /\ bh.F \cap bh.S_read # {}
    /\ bh.written # <<>>
    /\ Len(files[BFilePath(b.city)].ids) >= 2
    /\ files[BFilePath(b.city)].ok

\* C3, as stated: when the API serves pages 1..N and then an empty page, a run
\* without a cap ends with last_page = N persisted.
C3_Original ==
    site = "A" =>
       \A w \in Workers :
          (/\ pc[w] = "done"
           /\ hist[w].clean
           /\ hist[w].stopped
           /\ args.max_pages = None) => Persisted(w) = N

\* C3, amended: such a run, when its first requested page p lies in 1..N, requests
\* p..N+1, ends with last_page = N persisted and returns; when p lies beyond N it
\* requests that one page, finds it empty and leaves the persisted last_page alone.
C3_Amended ==
    site = "A" =>
       \A w \in Workers :
          (/\ pc[w] = "done"
           /\ hist[w].clean
           /\ hist[w].stopped
           /\ args.max_pages = None) =>
             LET p == hist[w].requested[1]
             IN  IF p \in 1..N
                 THEN /\ Persisted(w) = N
                      /\ hist[w].requested = [i \in 1..(N - p + 2) |-> p + i - 1]
                 ELSE /\ Persisted(w) = hist[w].persisted0
                      /\ hist[w].requested = <<p>>

\* A run from page 1 over a site of MaxPages pages that ended at the empty page
C3_Witness ==
    /\ site = "A"
    /\ pc[1] = "done"
    /\ hist[1].clean /\ hist[1].stopped
    /\ args.max_pages = None
    /\ N = MaxPages
    /\ hist[1].requested[1] = 1
    /\ Persisted(1) = N

\* C4: the first page requested is the start-page override when one is given,
\* and last_page + 1 when none is.
C4_Claim ==
    site = "A" =>
       \A w \in Workers :
          hist[w].requested # <<>> =>
             hist[w].requested[1] = IF args.start # None THEN args.start[1]
                                    ELSE hist[w].persisted0 + 1

\* C6: the seen-ID set a run loads is the union of the IDs of the readable
\* output files of its city; an unreadable file adds nothing and the run goes on.
C6_SeenIsReadable ==
    /\ site = "A" =>
          \A w \in Workers :
             pc[w] \in {"loop", "done"} => seen_posting_ids[w] = hist[w].S_read
    /\ site = "B" => (b.pc = "city" => b.existing_ids = bh.S_read)

\* A site-A run in its loop that loaded one readable and one unreadable file
C6_Witness ==
    /\ site = "A"
    /\ pc[1] = "loop"
    /\ \E n1, n2 \in Glob(city_slug[1]) :
          /\ files[n1].ok /\ ~files[n2].ok
          /\ Range(files[n2].ids) \ Range(files[n1].ids) # {}
    /\ seen_posting_ids[1] # {}
    /\ hist[1].S_all # hist[1].S_read

\* C8: after an empty listing array, a status other than 200 or an exception, the
\* run has ended: that request is its last, scrape has returned, and what the
\* earlier pages accumulated has been written.
C8_StopIsTerminal ==
    site = "A" =>
       \A w \in Workers :
          hist[w].stopped =>
             /\ pc[w] = "done"
             /\ Len(hist[w].requested) = hist[w].stop_at
             /\ hist[w].written = StrAll(new_listings_this_session[w])
             /\ new_listings_this_session[w] # <<>> =>
                   /\ OutputPath(now, city_slug[w]) \in DOMAIN files
                   /\ files[OutputPath(now, city_slug[w])] =
                         [ok |-> TRUE, ids |-> StrAll(new_listings_this_session[w])]

\* A run stopped by a failed request after a page that gave it new listings
C8_Witness ==
    /\ site = "A"
    /\ pc[1] = "done"
    /\ hist[1].stopped /\ ~hist[1].clean
    /\ Len(hist[1].requested) >= 2
    /\ hist[1].written # <<>>

\* C9: the run after an interrupted one, started without an override, requests
\* again the pages whose listings the interrupted run held unsaved.
C9_Claim ==
    site = "A" =>
       ((/\ pc[1] = "done"
         /\ lost.live
         /\ args.start = None) => lost.pages \subseteq Range(hist[1].requested))

\* C10: with a cap given, a run requests no more pages than the cap.
C10_Claim ==
    site = "A" =>
       \A w \in Workers :
          args.max_pages # None =>
             /\ Len(hist[w].requested) <= args.max_pages[1]
             /\ pages_scraped_this_run[w] <= args.max_pages[1]

----------------------------------------------------------------------------
(* Properties of the threads of one invocation (specification SpecMain) *)

\* C5: no worker loads or overwrites a last_page that another worker of the
\* same invocation persisted, and no worker's seen-ID set or output file holds
\* an ID fetched for another city.
C5_Claim ==
    site = "main" =>
       \A w \in Workers :
          /\ ~hist[w].shared
          /\ \A v \in Workers \ {w} :
                (pc[w] # "idle" /\ pc[v] # "idle" /\ city_slug[v] # city_slug[w]) =>
                   /\ seen_posting_ids[w] \cap hist[v].F = {}
                   /\ Range(hist[w].written) \cap hist[v].F = {}

----------------------------------------------------------------------------
(* Properties of the flattener (specification SpecFlat) *)

\* A feature whose label holds the word is in the record's mainFeatures
HasFeature(listing, word) ==
    /\ listing.mainFeatures.kind = "dict"
    /\ word \in Range(listing.mainFeatures.dict)

\* C7: a row is made of every record, and each derived field whose own source
\* path is present in the record is populated in it, whatever the other paths
\* hold; a record without priceOperationTypes gets price and currency None.
C7_Claim ==
    (site = "flat" /\ fl.pc = "out") =>
       LET listing == fl.listing
           row == fl.row
       IN  /\ ~row.raised
           /\ listing.priceOperationTypes = "ok" => row.price # None /\ row.currency # None
           /\ listing.priceOperationTypes = "missing" =>
                 row.price = None /\ row.currency = None
           /\ listing.expenses = "ok" => row.expenses # None
           /\ (HasFeature(listing, "util") \/ HasFeature(listing, "total")) =>
                 row.area_m2 # None
           /\ HasFeature(listing, "quarto") => row.bedrooms # None
           /\ HasFeature(listing, "banheiro") => row.bathrooms # None
           /\ HasFeature(listing, "suite") => row.suites # None
           /\ HasFeature(listing, "vaga") => row.parking # None
           /\ listing.location = "ok" => row.location # None
           /\ listing.geolocation = "ok" =>
                 row.latitude # None /\ row.longitude # None
           /\ listing.url = "ok" => row.full_url # None
           /\ listing.publisher = "ok" => row.publisher # None

====
